---- MODULE Spec2Model ----
(***************************************************************************)
(* Contest Form Generator (app.py): judge roster normalisation             *)
(* (balance_and_sort_judges, calculate_numbers), the judge import block    *)
(* and the generation buttons.                                             *)
(*                                                                         *)
(* Strings are sequences of one-character strings, so that upper(),        *)
(* title(), strip(), split() and clean_filename act on characters.         *)
(* A DataFrame is the sequence of its rows in row order; a row is a record *)
(* whose fields are the frame's columns.                                   *)
(***************************************************************************)
EXTENDS Integers, Sequences, FiniteSets, TLC

(***************************************************************************)
(* Bounds of the model.                                                    *)
(***************************************************************************)
MaxRows == 2

(***************************************************************************)
(* Characters and Python str methods.                                      *)
(***************************************************************************)
UpperCase == <<"A","B","C","D","E","F","G","H","I","J","K","L","M",
               "N","O","P","Q","R","S","T","U","V","W","X","Y","Z">>

LowerCase == <<"a","b","c","d","e","f","g","h","i","j","k","l","m",
               "n","o","p","q","r","s","t","u","v","w","x","y","z">>

Digits == <<"0","1","2","3","4","5","6","7","8","9">>

\* The characters of the model in code point order (Python compares str by
\* code point).
Ascii == <<" ", "-", ".", "/">> \o Digits \o UpperCase
           \o <<"\\", "_">> \o LowerCase \o <<"{", "}">>

Range(s) == {s[i] : i \in DOMAIN s}

Code == [c \in Range(Ascii) |-> CHOOSE i \in DOMAIN Ascii : Ascii[i] = c]

IsUpper(c) == c \in Range(UpperCase)
IsLower(c) == c \in Range(LowerCase)
IsAlpha(c) == IsUpper(c) \/ IsLower(c)
IsDigit(c) == c \in Range(Digits)
IsAlnum(c) == IsAlpha(c) \/ IsDigit(c)
IsSpace(c) == c = " "

ToUpper(c) == IF IsLower(c) THEN UpperCase[Code[c] - Code["a"] + 1] ELSE c
ToLower(c) == IF IsUpper(c) THEN LowerCase[Code[c] - Code["A"] + 1] ELSE c

\* str.upper()
Upper(s) == [i \in DOMAIN s |-> ToUpper(s[i])]

\* str.title(): a letter that follows a letter is lowered, any other letter
\* is raised.
Title(s) ==
    [i \in DOMAIN s |->
        IF i > 1 /\ IsAlpha(s[i-1]) THEN ToLower(s[i]) ELSE ToUpper(s[i])]

RECURSIVE LStrip(_)
LStrip(s) == IF s # <<>> /\ IsSpace(Head(s)) THEN LStrip(Tail(s)) ELSE s

RECURSIVE RStrip(_)
RStrip(s) ==
    IF s # <<>> /\ IsSpace(s[Len(s)]) THEN RStrip(SubSeq(s, 1, Len(s) - 1)) ELSE s

\* str.strip()
Strip(s) == RStrip(LStrip(s))

\* str.split()[-1] of a stripped, non-empty string: the characters after the
\* last whitespace.
RECURSIVE LastToken(_)
LastToken(s) ==
    IF s = <<>> \/ IsSpace(s[Len(s)]) THEN <<>>
    ELSE Append(LastToken(SubSeq(s, 1, Len(s) - 1)), s[Len(s)])

\* Python's a < b on str.
RECURSIVE StrLess(_, _)
StrLess(a, b) ==
    IF b = <<>> THEN FALSE
    ELSE IF a = <<>> THEN TRUE
    ELSE IF Head(a) # Head(b) THEN Code[Head(a)] < Code[Head(b)]
    ELSE StrLess(Tail(a), Tail(b))

(***************************************************************************)
(* Values of the roster.                                                   *)
(***************************************************************************)
MUS == <<"M","U","S">>
PER == <<"P","E","R">>
SNG == <<"S","N","G">>
Official == <<"O","f","f","i","c","i","a","l">>
Practice == <<"P","r","a","c","t","i","c","e">>

\* A missing Number (pandas NaN); the numbers of the model are >= 0.
NaN == -1

\* categories of balance_and_sort_judges, cat_order of calculate_numbers
categories == <<MUS, PER, SNG>>

HasColumn(df, col) == df # <<>> /\ col \in DOMAIN df[1]

NumberOf(r) == IF "Number" \in DOMAIN r THEN r.Number ELSE NaN

WithNumber(r, n) ==
    [Number |-> n, Name |-> r.Name, Category |-> r.Category,
     Type |-> r.Type, PrintFlag |-> r.PrintFlag]

CountRows(df, cat, type) ==
    Cardinality({i \in DOMAIN df : df[i].Category = cat /\ df[i].Type = type})

Max(a, b) == IF a > b THEN a ELSE b

(***************************************************************************)
(* balance_and_sort_judges                                                 *)
(***************************************************************************)
AbsentName(cat) ==
    <<"A","b","s","e","n","t"," ">> \o cat \o <<" ","J","u","d","g","e">>

Placeholder(cat) ==
    [Name |-> AbsentName(cat), Category |-> cat, Type |-> Official,
     PrintFlag |-> FALSE, Number |-> 0]

\* a max_count that looks at the first category only
MaxOfficialFirstOnly(df) == CountRows(df, MUS, Official)

\* max_count of lines 218-222
MaxOfficial(df) ==
    Max(CountRows(df, MUS, Official),
        Max(CountRows(df, PER, Official), CountRows(df, SNG, Official)))

\* new_rows of lines 225-238: diff placeholders per category, in category order
RECURSIVE Repeat(_, _)
Repeat(x, n) == IF n <= 0 THEN <<>> ELSE <<x>> \o Repeat(x, n - 1)

RECURSIVE NewRows(_, _, _)
NewRows(df, max_count, k) ==
    IF k > Len(categories) THEN <<>>
    ELSE LET cat  == categories[k]
             diff == max_count - CountRows(df, cat, Official)
         IN  Repeat(Placeholder(cat), diff) \o NewRows(df, max_count, k + 1)

\* pd.concat: a row of df that has no Number column gets a missing Number
balance_and_sort_judges(df) ==
    LET max_count == MaxOfficial(df)
        new_rows  == IF max_count > 0 THEN NewRows(df, max_count, 1) ELSE <<>>
    IN  IF new_rows # <<>>
        THEN [i \in DOMAIN df |-> WithNumber(df[i], NumberOf(df[i]))] \o new_rows
        ELSE df

(***************************************************************************)
(* calculate_numbers                                                       *)
(***************************************************************************)
UnknownRank == 99

PracticeStart == 50

\* line 251-252
CleanRow(r) ==
    LET c == [Name |-> r.Name, Category |-> Strip(Upper(r.Category)),
              Type |-> Strip(Title(r.Type)), PrintFlag |-> r.PrintFlag]
    IN  IF "Number" \in DOMAIN r THEN WithNumber(c, r.Number) ELSE c

\* line 256
SortLastName(r) == LastToken(Strip(r.Name))

\* lines 259-260
SortCat(r) ==
    CASE r.Category = MUS -> 0
      [] r.Category = PER -> 1
      [] r.Category = SNG -> 2
      [] OTHER            -> UnknownRank

\* lines 263-264
SortType(r) ==
    CASE r.Type = Official -> 0
      [] r.Type = Practice -> 1
      [] OTHER             -> UnknownRank

\* an order that compares the last names without regard to case
KeyLessIgnoreCase(a, b) ==
    \/ SortCat(a) < SortCat(b)
    \/ /\ SortCat(a) = SortCat(b)
       /\ \/ SortType(a) < SortType(b)
          \/ /\ SortType(a) = SortType(b)
             /\ StrLess(Upper(SortLastName(a)), Upper(SortLastName(b)))

\* the order of sort_values(by=['Sort_Cat', 'Sort_Type', 'Sort_Last_Name'])
KeyLess(a, b) ==
    \/ SortCat(a) < SortCat(b)
    \/ /\ SortCat(a) = SortCat(b)
       /\ \/ SortType(a) < SortType(b)
          \/ /\ SortType(a) = SortType(b)
             /\ StrLess(SortLastName(a), SortLastName(b))

\* an unstable sort: r placed in front of the rows equal to it
InsertRowUnstable(sorted, r) ==
    LET after == {i \in DOMAIN sorted : ~KeyLess(sorted[i], r)}
        pos   == IF after = {} THEN Len(sorted) + 1
                 ELSE CHOOSE i \in after : \A j \in after : i <= j
    IN  SubSeq(sorted, 1, pos - 1) \o <<r>> \o SubSeq(sorted, pos, Len(sorted))

\* r placed behind every row that does not sort after it
InsertRow(sorted, r) ==
    LET after == {i \in DOMAIN sorted : KeyLess(r, sorted[i])}
        pos   == IF after = {} THEN Len(sorted) + 1
                 ELSE CHOOSE i \in after : \A j \in after : i <= j
    IN  SubSeq(sorted, 1, pos - 1) \o <<r>> \o SubSeq(sorted, pos, Len(sorted))

\* line 267: sort_values on several keys keeps equal rows in their order
RECURSIVE SortValues(_)
SortValues(df) ==
    IF df = <<>> THEN <<>>
    ELSE InsertRow(SortValues(SubSeq(df, 1, Len(df) - 1)), df[Len(df)])

\* df.loc[mask, 'Number'] = range(start, start + count): the masked rows
\* take the numbers in row order
AssignRange(df, cat, type, start) ==
    [i \in DOMAIN df |->
        IF df[i].Category = cat /\ df[i].Type = type
        THEN WithNumber(df[i], start +
                Cardinality({j \in 1..(i-1) :
                    df[j].Category = cat /\ df[j].Type = type}))
        ELSE df[i]]

\* a numbering loop whose Practice counter runs on across the categories
RECURSIVE NumberLoopPracticeRuns(_, _, _)
NumberLoopPracticeRuns(df, k, current_official_num) ==
    IF k > Len(categories) THEN df
    ELSE LET cat == categories[k]
             count_official == CountRows(df, cat, Official)
             earlier == Cardinality({i \in DOMAIN df :
                            /\ df[i].Type = Practice
                            /\ \E c \in 1..(k-1) : df[i].Category = categories[c]})
             df1 == AssignRange(df, cat, Official, current_official_num)
             df2 == AssignRange(df1, cat, Practice, PracticeStart + earlier)
         IN  NumberLoopPracticeRuns(df2, k + 1, current_official_num + count_official)

\* a numbering loop whose Official counter starts again in every category
NumberLoopReset(df, k, current_official_num) ==
    LET perCat(d, cat) ==
            AssignRange(AssignRange(d, cat, Official, 1), cat, Practice, PracticeStart)
    IN  perCat(perCat(perCat(df, MUS), PER), SNG)

\* lines 276-288
RECURSIVE NumberLoop(_, _, _)
NumberLoop(df, k, current_official_num) ==
    IF k > Len(categories) THEN df
    ELSE LET cat == categories[k]
             count_official == CountRows(df, cat, Official)
             df1 == IF count_official > 0
                    THEN AssignRange(df, cat, Official, current_official_num)
                    ELSE df
             count_practice == CountRows(df, cat, Practice)
             df2 == IF count_practice > 0
                    THEN AssignRange(df1, cat, Practice, PracticeStart)
                    ELSE df1
         IN  NumberLoop(df2, k + 1, current_official_num + count_official)

calculate_numbers(df) ==
    LET cleaned  == [i \in DOMAIN df |-> CleanRow(df[i])]
        sorted   == SortValues(cleaned)
        numbered == IF HasColumn(sorted, "Number") THEN sorted
                    ELSE [i \in DOMAIN sorted |-> WithNumber(sorted[i], 0)]
    IN  NumberLoop(numbered, 1, 1)

(***************************************************************************)
(* Helpers of the generation section.                                      *)
(***************************************************************************)
\* sub in s
Contains(s, sub) ==
    \E i \in 1..(Len(s) - Len(sub) + 1) : SubSeq(s, i, i + Len(sub) - 1) = sub

\* s.replace(old, new)
RECURSIVE Replace(_, _, _)
Replace(s, old, new) ==
    IF Len(s) < Len(old) THEN s
    ELSE IF SubSeq(s, 1, Len(old)) = old
         THEN new \o Replace(SubSeq(s, Len(old) + 1, Len(s)), old, new)
         ELSE <<Head(s)>> \o Replace(Tail(s), old, new)

RECURSIVE Flatten(_)
Flatten(ss) == IF ss = <<>> THEN <<>> ELSE Head(ss) \o Flatten(Tail(ss))

\* lines 37-40
clean_filename(text) ==
    LET dashed == Replace(Replace(text, <<"/">>, <<"-">>), <<"\\">>, <<"-">>)
    IN  Strip(SelectSeq(dashed, LAMBDA c : IsAlnum(c) \/ c \in {" ", "-", "_"}))

Pad2(n) == <<Digits[((n \div 10) % 10) + 1], Digits[(n % 10) + 1]>>

\* day and month exchanged: "%d/%m/%Y"
strftimeDayFirst(date) ==
    Pad2(date.day) \o <<"/">> \o Pad2(date.month) \o <<"/">>
        \o Pad2(date.year \div 100) \o Pad2(date.year % 100)

\* c_date_obj.strftime("%m/%d/%Y")
strftime(date) ==
    Pad2(date.month) \o <<"/">> \o Pad2(date.day) \o <<"/">>
        \o Pad2(date.year \div 100) \o Pad2(date.year % 100)

MUS_Long  == <<"M","U","S","_","L","o","n","g",".","p","d","f">>
MUS_Short == <<"M","U","S","_","S","h","o","r","t",".","p","d","f">>
PER_Long  == <<"P","E","R","_","L","o","n","g",".","p","d","f">>
PER_Short == <<"P","E","R","_","S","h","o","r","t",".","p","d","f">>
SNG_Long  == <<"S","N","G","_","L","o","n","g",".","p","d","f">>
SNG_Short == <<"S","N","G","_","S","h","o","r","t",".","p","d","f">>

TemplateNames == {MUS_Long, MUS_Short, PER_Long, PER_Short, SNG_Long, SNG_Short}

\* FORMAT_MAPPING.get(cat, [])
FORMAT_MAPPING(cat) ==
    CASE cat = MUS -> <<MUS_Long, MUS_Short>>
      [] cat = PER -> <<PER_Long, PER_Short>>
      [] cat = SNG -> <<SNG_Long, SNG_Short>>
      [] OTHER     -> <<>>

\* comp2 = None
NoComp == 0

\* The rows of df with Print == True, as their positions in df.
ActiveRows(df) == SelectSeq([i \in DOMAIN df |-> i], LAMBDA i : df[i].PrintFlag = TRUE)

\* One composed page: the template page it is written on, the judge and the
\* competitors of the loop iteration that added it (positions in the two
\* tables), and whether an overlay was merged onto it.
Page(t_name, i_page, j, comp1, comp2, merged) ==
    [template |-> t_name, tpage |-> i_page, judge |-> j,
     comp1 |-> comp1, comp2 |-> comp2, merged |-> merged]

\* a pairing loop that stops before an unpaired last competitor
RECURSIVE ShortLoopDropsOdd(_, _, _, _)
ShortLoopDropsOdd(t_name, j, competitor_list, i) ==
    IF i + 1 >= Len(competitor_list) THEN <<>>
    ELSE <<Page(t_name, 1, j, competitor_list[i + 1], competitor_list[i + 2], TRUE)>>
            \o ShortLoopDropsOdd(t_name, j, competitor_list, i + 2)

\* lines 612-634 and 721-739: for i in range(0, len(competitor_list), 2)
RECURSIVE ShortLoop(_, _, _, _)
ShortLoop(t_name, j, competitor_list, i) ==
    IF i >= Len(competitor_list) THEN <<>>
    ELSE LET comp1 == competitor_list[i + 1]
             comp2 == IF i + 1 < Len(competitor_list)
                      THEN competitor_list[i + 2] ELSE NoComp
         IN  <<Page(t_name, 1, j, comp1, comp2, TRUE)>>
                \o ShortLoop(t_name, j, competitor_list, i + 2)

\* a Long loop that merges the overlay onto every page of the template
LongLoopMergesAll(tdir, t_name, j, competitor_list) ==
    Flatten([c \in DOMAIN competitor_list |->
        [i_page \in 1..tdir[t_name] |->
            Page(t_name, i_page, j, competitor_list[c], NoComp, TRUE)]])

\* lines 636-652 and 741-754: every page of the template for every
\* competitor, the overlay merged onto the first page only
LongLoop(tdir, t_name, j, competitor_list) ==
    Flatten([c \in DOMAIN competitor_list |->
        [i_page \in 1..tdir[t_name] |->
            Page(t_name, i_page, j, competitor_list[c], NoComp, i_page = 1)]])

\* the pages one template adds to the writer for one judge
ComposeTemplate(tdir, t_name, j, competitor_list) ==
    IF Contains(t_name, <<"S","h","o","r","t">>)
    THEN ShortLoop(t_name, j, competitor_list, 0)
    ELSE LongLoop(tdir, t_name, j, competitor_list)

\* os.path.exists(t_path)
Exists(tdir, t_name) == t_name \in DOMAIN tdir /\ tdir[t_name] > 0

Result(mode, level, message, kind, name, files) ==
    [mode |-> mode, level |-> level, message |-> message,
     kind |-> kind, name |-> name, files |-> files]

NoDownload(mode, level, message) == Result(mode, level, message, "none", <<>>, <<>>)

File(name, pages, blocks) == [name |-> name, pages |-> pages, blocks |-> blocks]

\* lines 553-561
ContestContext(c_district, c_session, c_date_obj) ==
    [district |-> c_district, session |-> c_session, date |-> strftime(c_date_obj)]

safe_session(ctx) == clean_filename(ctx.session)

safe_date(ctx) == clean_filename(ctx.date)

(***************************************************************************)
(* Option 1: By Judge (lines 570-680)                                      *)
(***************************************************************************)
\* the judge filter of line 588 left out
JudgePdfKeepsZero(final_judges, competitor_list, tdir, ctx, j) ==
    LET templates == FORMAT_MAPPING(final_judges[j].Category)
        long == SelectSeq(templates,
                    LAMBDA t : Contains(t, <<"L","o","n","g">>) /\ Exists(tdir, t))
        pages == Flatten([k \in DOMAIN long |->
                    ComposeTemplate(tdir, long[k], j, competitor_list)])
    IN  IF pages # <<>>
        THEN <<File(safe_session(ctx) \o <<"_">> \o clean_filename(final_judges[j].Name)
                        \o <<"_">> \o safe_date(ctx) \o <<".","p","d","f">>, pages, <<>>)>>
        ELSE <<>>

\* the filter of line 599 left out: every existing template is composed
JudgePdfAllTemplates(final_judges, competitor_list, tdir, ctx, j) ==
    IF final_judges[j].Number = 0 THEN <<>>
    ELSE
    LET templates == FORMAT_MAPPING(final_judges[j].Category)
        found == SelectSeq(templates, LAMBDA t : Exists(tdir, t))
        pages == Flatten([k \in DOMAIN found |->
                    ComposeTemplate(tdir, found[k], j, competitor_list)])
    IN  IF pages # <<>>
        THEN <<File(safe_session(ctx) \o <<"_">> \o clean_filename(final_judges[j].Name)
                        \o <<"_">> \o safe_date(ctx) \o <<".","p","d","f">>, pages, <<>>)>>
        ELSE <<>>

\* lines 587-659: the (fname, pdf) one judge appends to generated_pdfs, if any
JudgePdf(final_judges, competitor_list, tdir, ctx, j) ==
    IF final_judges[j].Number = 0 THEN <<>>
    ELSE
    LET templates == FORMAT_MAPPING(final_judges[j].Category)
        long == SelectSeq(templates,
                    LAMBDA t : Contains(t, <<"L","o","n","g">>) /\ Exists(tdir, t))
        pages == Flatten([k \in DOMAIN long |->
                    ComposeTemplate(tdir, long[k], j, competitor_list)])
    IN  IF pages # <<>>
        THEN <<File(safe_session(ctx) \o <<"_">> \o clean_filename(final_judges[j].Name)
                        \o <<"_">> \o safe_date(ctx) \o <<".","p","d","f">>, pages, <<>>)>>
        ELSE <<>>

\* lines 662-675 with a single document also archived
ByJudgeOutputAlwaysZip(generated_pdfs, ctx) ==
    IF Len(generated_pdfs) >= 1
    THEN Result("by_judge", "success", "Created Judge Packets.", "zip",
                safe_session(ctx) \o <<"_","J","u","d","g","e","_","P","a","c","k","e","t","s",".","z","i","p">>, generated_pdfs)
    ELSE NoDownload("by_judge", "warning", "No files generated.")

\* lines 662-675
ByJudgeOutput(generated_pdfs, ctx) ==
    IF Len(generated_pdfs) = 1
    THEN Result("by_judge", "success", "Created single PDF packet", "pdf",
                generated_pdfs[1].name, generated_pdfs)
    ELSE IF Len(generated_pdfs) > 1
    THEN Result("by_judge", "success", "Created Judge Packets.", "zip",
                safe_session(ctx) \o <<"_","J","u","d","g","e","_","P","a","c","k","e","t","s",".","z","i","p">>, generated_pdfs)
    ELSE NoDownload("by_judge", "warning", "No files generated.")

GenerateByJudge(final_judges, final_competitors, tdir, ctx) ==
    IF ctx.district = <<>>
    THEN NoDownload("by_judge", "error", "Please fill in District.")
    ELSE IF final_judges # <<>> /\ final_competitors # <<>>
    THEN LET active_judges == ActiveRows(final_judges)
             competitor_list == ActiveRows(final_competitors)
         IN  IF active_judges = <<>> \/ competitor_list = <<>>
             THEN NoDownload("by_judge", "warning",
                     "Please select at least one Judge and one Competitor.")
             ELSE ByJudgeOutput(
                     Flatten([k \in DOMAIN active_judges |->
                        JudgePdf(final_judges, competitor_list, tdir, ctx,
                                 active_judges[k])]), ctx)
    ELSE NoDownload("by_judge", "error", "Missing Data")

(***************************************************************************)
(* Option 2: By Category (lines 687-774)                                   *)
(***************************************************************************)
\* the judge filter of line 718 left out
CategoryPdfKeepsZero(final_judges, cat_judges, competitor_list, tdir, ctx, t_name) ==
    IF ~Exists(tdir, t_name) THEN <<>>
    ELSE
    LET pages == Flatten([k \in DOMAIN cat_judges |->
                    ComposeTemplate(tdir, t_name, cat_judges[k], competitor_list)])
    IN  IF pages # <<>>
        THEN <<File(safe_session(ctx) \o <<"_">> \o Replace(t_name, <<".","p","d","f">>, <<>>)
                        \o <<"_">> \o safe_date(ctx) \o <<".","p","d","f">>, pages, <<>>)>>
        ELSE <<>>

\* lines 709-761: the archive entry of one template of one category, if any
CategoryPdf(final_judges, cat_judges, competitor_list, tdir, ctx, t_name) ==
    IF ~Exists(tdir, t_name) THEN <<>>
    ELSE
    LET judges == SelectSeq(cat_judges, LAMBDA j : final_judges[j].Number # 0)
        pages == Flatten([k \in DOMAIN judges |->
                    ComposeTemplate(tdir, t_name, judges[k], competitor_list)])
    IN  IF pages # <<>>
        THEN <<File(safe_session(ctx) \o <<"_">> \o Replace(t_name, <<".","p","d","f">>, <<>>)
                        \o <<"_">> \o safe_date(ctx) \o <<".","p","d","f">>, pages, <<>>)>>
        ELSE <<>>

\* lines 704-761: the archive entries of one category
CategoryFiles(final_judges, active_judges, competitor_list, tdir, ctx, cat) ==
    LET cat_judges == SelectSeq(active_judges,
                          LAMBDA j : final_judges[j].Category = cat)
        formats == FORMAT_MAPPING(cat)
    IN  IF cat_judges = <<>> THEN <<>>
        ELSE Flatten([k \in DOMAIN formats |->
                CategoryPdf(final_judges, cat_judges, competitor_list, tdir,
                            ctx, formats[k])])

GenerateByCategory(final_judges, final_competitors, tdir, ctx) ==
    IF ctx.district = <<>>
    THEN NoDownload("by_category", "error", "Please fill in District.")
    ELSE IF final_judges # <<>> /\ final_competitors # <<>>
    THEN LET active_judges == ActiveRows(final_judges)
             competitor_list == ActiveRows(final_competitors)
             files == Flatten([k \in DOMAIN categories |->
                        CategoryFiles(final_judges, active_judges,
                                      competitor_list, tdir, ctx, categories[k])])
         IN  IF Len(files) > 0
             THEN Result("by_category", "success", "Created Category Files.", "zip",
                         safe_session(ctx) \o <<"_","C","a","t","e","g","o","r","y","_","F","i","l","e","s",".","z","i","p">>, files)
             ELSE NoDownload("by_category", "warning", "No files generated.")
    ELSE NoDownload("by_category", "error", "Missing Data")

(***************************************************************************)
(* Option 3: Labels Only (lines 781-811) and generate_rtf_content          *)
(***************************************************************************)
\* One judge/competitor block of the RTF (lines 123-132).
Block(j, c) == [judge |-> j, comp |-> c]

\* lines 89-138: one block per valid judge and competitor, in that order
generate_rtf_content(final_judges, judges_df, competitors_df) ==
    LET valid_judges == SelectSeq(judges_df, LAMBDA j : final_judges[j].Number # 0)
    IN  Flatten([k \in DOMAIN valid_judges |->
            [c \in DOMAIN competitors_df |->
                Block(valid_judges[k], competitors_df[c])]])

\* lines 793-800: the archive entry of one category, if any
LabelFile(final_judges, active_judges, active_competitors, ctx, cat) ==
    LET cat_judges == SelectSeq(active_judges,
                          LAMBDA j : final_judges[j].Category = cat)
    IN  IF cat_judges = <<>> THEN <<>>
        ELSE <<File(safe_session(ctx) \o <<"_">> \o cat \o <<"_","L","a","b","e","l","s",".","r","t","f">>, <<>>,
                    generate_rtf_content(final_judges, cat_judges, active_competitors))>>

GenerateLabels(final_judges, final_competitors, ctx) ==
    IF ctx.district = <<>>
    THEN NoDownload("labels", "error", "Please fill in District.")
    ELSE IF final_judges # <<>> /\ final_competitors # <<>>
    THEN LET active_judges == ActiveRows(final_judges)
             active_competitors == ActiveRows(final_competitors)
             files == Flatten([k \in DOMAIN categories |->
                        LabelFile(final_judges, active_judges,
                                  active_competitors, ctx, categories[k])])
         IN  IF Len(files) > 0
             THEN Result("labels", "success", "Created Label Files.", "zip",
                         safe_session(ctx) \o <<"_","L","a","b","e","l","s",".","z","i","p">>, files)
             ELSE NoDownload("labels", "warning", "No labels generated.")
    ELSE NoDownload("labels", "error", "Missing Data")

(***************************************************************************)
(* Folder labels (lines 817-832) and generate_folder_labels_rtf            *)
(***************************************************************************)
\* lines 151-205: one table row per two judges; a block per filled cell
RECURSIVE FolderRows(_, _)
FolderRows(judges, i) ==
    IF i >= Len(judges) THEN <<>>
    ELSE <<Block(judges[i + 1], NoComp)>>
            \o (IF i + 1 < Len(judges) THEN <<Block(judges[i + 2], NoComp)>> ELSE <<>>)
            \o FolderRows(judges, i + 2)

generate_folder_labels_rtf(judges_df) ==
    LET active_judges == ActiveRows(judges_df)
        judges == SelectSeq(active_judges, LAMBDA j : judges_df[j].Number # 0)
    IN  FolderRows(judges, 0)

\* rtf_data is a non-empty string whatever the judges are (lines 143-149,
\* 207), so the branch of line 828 is never taken
GenerateFolderLabels(final_judges, ctx) ==
    IF ctx.district = <<>>
    THEN NoDownload("folder_labels", "error", "Please fill in District.")
    ELSE IF final_judges # <<>>
    THEN Result("folder_labels", "success", "Labels generated successfully.", "rtf",
                safe_session(ctx) \o <<"_","F","o","l","d","e","r","_","L","a","b","e","l","s",".","r","t","f">>,
                <<File(safe_session(ctx) \o <<"_","F","o","l","d","e","r","_","L","a","b","e","l","s",".","r","t","f">>, <<>>,
                       generate_folder_labels_rtf(final_judges))>>)
    ELSE NoDownload("folder_labels", "error", "No judges loaded.")

(***************************************************************************)
(* State.                                                                  *)
(***************************************************************************)
VARIABLES
    judges_data,        \* st.session_state['judges_data']
    competitors_data,   \* st.session_state['competitors_data']
    j_up,               \* the file held by the judge uploader, NoFile if none
    clean_df,           \* raw_df / clean_df of the import block
    stage,              \* the line the import block has reached
    c_district,         \* text_input "District"
    c_session,          \* selectbox "Session"
    c_date_obj,         \* date_input "Contest Date"
    templates,          \* TEMPLATE_DIR: page count of each template file, 0 if absent
    result,             \* what the last generation button showed and offered
    edited_judges,      \* what the judge data_editor returned in this script run
    edited_competitors, \* what the competitor data_editor returned in this script run
    args,               \* the arguments of the function call under study
    ret                 \* the value that call returned

rosterVars == <<j_up, clean_df, stage>>

widgetVars == <<c_district, c_session, c_date_obj>>

editorVars == <<edited_judges, edited_competitors>>

callVars == <<args, ret>>

vars == <<judges_data, competitors_data, j_up, clean_df, stage,
          c_district, c_session, c_date_obj, templates, result,
          edited_judges, edited_competitors, args, ret>>

NoFile == <<[none |-> TRUE]>>

\* no call is under study
NoCall == [fn |-> "none"]

\* the call has not returned yet
NoReturn == [done |-> FALSE]

\* the call returned value
Returned(value) == [done |-> TRUE, value |-> value]

\* rows are records with the columns Number, Name, Category, Type and
\* PrintFlag (the column 'Print')
Names == { <<"A"," ","Z">>, <<"B"," ","a">>, <<"C"," ","Z">> }

RawCategories == { MUS, <<"p","e","r"," ">>, SNG, <<"X">> }

RawTypes == { Official, Practice, <<"o","f","f","i","c","i","a","l">>,
              <<"G","u","e","s","t">> }

RawRows == [Name : Names, Category : RawCategories, Type : RawTypes]

SeqsUpTo(S, n) == UNION {[1..k -> S] : k \in 0..n}

\* the Assignments Report as read_csv returns it
Files == SeqsUpTo(RawRows, MaxRows)

QuartetSemiFinals == <<"Q","u","a","r","t","e","t"," ","S","e","m","i","-","F","i","n","a","l","s">>

ChorusFinals == <<"C","h","o","r","u","s"," ","F","i","n","a","l","s">>

Example == <<"E","x","a","m","p","l","e">>

\* no button clicked yet
NoResult == NoDownload("none", "none", "")

\* a templates directory without files
NoTemplates == [t \in TemplateNames |-> 0]

(***************************************************************************)
(* The judge import block, line by line, and Auto-number on its result.    *)
(***************************************************************************)
\* lines 413-416
ImportClean(raw_df) ==
    LET upper == [i \in DOMAIN raw_df |->
                    [Name |-> raw_df[i].Name,
                     Category |-> Strip(Upper(raw_df[i].Category)),
                     Type |-> raw_df[i].Type, PrintFlag |-> TRUE]]
    IN  SelectSeq(upper, LAMBDA r : r.Category \in {MUS, PER, SNG})

RosterInit ==
    /\ j_up \in Files
    /\ clean_df = j_up
    /\ stage = "read"
    /\ judges_data = <<>>
    /\ competitors_data = <<>>
    /\ c_district = <<>>
    /\ c_session = QuartetSemiFinals
    /\ c_date_obj = [year |-> 2024, month |-> 5, day |-> 1]
    /\ templates = NoTemplates
    /\ result = NoResult
    /\ edited_judges = judges_data
    /\ edited_competitors = competitors_data
    /\ args = NoCall
    /\ ret = NoReturn

RosterClean ==
    /\ stage = "read"
    /\ clean_df' = ImportClean(clean_df)
    /\ stage' = "cleaned"
    /\ UNCHANGED <<judges_data, j_up, competitors_data, widgetVars, templates, result,
                   editorVars, callVars>>

RosterBalance ==
    /\ stage = "cleaned"
    /\ clean_df' = balance_and_sort_judges(clean_df)
    /\ stage' = "balanced"
    /\ UNCHANGED <<judges_data, j_up, competitors_data, widgetVars, templates, result,
                   editorVars, callVars>>

RosterNumber ==
    /\ stage = "balanced"
    /\ clean_df' = calculate_numbers(clean_df)
    /\ stage' = "numbered"
    /\ UNCHANGED <<judges_data, j_up, competitors_data, widgetVars, templates, result,
                   editorVars, callVars>>

RosterStore ==
    /\ stage = "numbered"
    /\ judges_data' = clean_df
    /\ stage' = "stored"
    /\ edited_judges' = judges_data'
    /\ UNCHANGED <<clean_df, j_up, competitors_data, widgetVars, templates, result,
                   edited_competitors, callVars>>

RosterAutoNumber ==
    /\ stage = "stored"
    /\ judges_data # <<>>
    /\ judges_data' = calculate_numbers(judges_data)
    /\ stage' = "renumbered"
    /\ edited_judges' = judges_data'
    /\ UNCHANGED <<clean_df, j_up, competitors_data, widgetVars, templates, result,
                   edited_competitors, callVars>>

RosterNext ==
    \/ RosterClean
    \/ RosterBalance
    \/ RosterNumber
    \/ RosterStore
    \/ RosterAutoNumber

SpecRoster == RosterInit /\ [][RosterNext]_vars

(***************************************************************************)
(* The generation buttons on a session that holds a roster, a competitor   *)
(* list and contest information. Every table drawn here is one the data    *)
(* editors can produce: they accept any Number, Name and Print value and   *)
(* offer MUS, PER, SNG and Official, Practice.                             *)
(***************************************************************************)
MaxJudges == 2

MaxPairs == 4

GenNames == { <<"A","/","Z",".">> }

GenJudgeRows ==
    [Number : {0, 1}, Name : GenNames, Category : {MUS, PER, SNG},
     Type : {Official}, PrintFlag : BOOLEAN]

TestQuartet == <<"T","e","s","t"," ","Q","u","a","r","t","e","t">>

\* competitor tables of n rows, numbered 10, 11, ... in order of appearance
CompTables(n) ==
    {[i \in 1..n |-> [Number |-> 9 + i, Name |-> TestQuartet, Director |-> <<>>,
                      PrintFlag |-> flags[i]]] : flags \in [1..n -> BOOLEAN]}

Contexts ==
    { <<<<>>, QuartetSemiFinals, [year |-> 2024, month |-> 5, day |-> 1]>>,
      <<Example, QuartetSemiFinals, [year |-> 2024, month |-> 5, day |-> 1]>>,
      <<Example, ChorusFinals, [year |-> 2024, month |-> 12, day |-> 25]>> }

OnlyMusLong == [t \in TemplateNames |-> IF t = MUS_Long THEN 1 ELSE 0]

AllTemplates == [t \in TemplateNames |-> IF Contains(t, <<"L","o","n","g">>) THEN 2 ELSE 1]

SomeTemplates ==
    [t \in TemplateNames |-> IF t \in {MUS_Long, MUS_Short, PER_Short} THEN 1 ELSE 0]

TemplateDirs == {OnlyMusLong, AllTemplates, SomeTemplates}

GenInit ==
    /\ \E nj \in 0..MaxJudges, nc \in 0..MaxPairs :
          /\ nj * nc <= MaxPairs
          /\ judges_data \in [1..nj -> GenJudgeRows]
          /\ competitors_data \in CompTables(nc)
    /\ \E ctx \in Contexts :
          /\ c_district = ctx[1]
          /\ c_session = ctx[2]
          /\ c_date_obj = ctx[3]
    /\ templates \in TemplateDirs
    /\ result = NoResult
    /\ j_up = NoFile
    /\ clean_df = <<>>
    /\ stage = "idle"
    /\ edited_judges = judges_data
    /\ edited_competitors = competitors_data
    /\ args = NoCall
    /\ ret = NoReturn

contest_context == ContestContext(c_district, c_session, c_date_obj)

ClickByJudge ==
    /\ result' = GenerateByJudge(judges_data, competitors_data, templates, contest_context)
    /\ UNCHANGED <<judges_data, competitors_data, rosterVars, widgetVars, templates,
                   editorVars, callVars>>

ClickByCategory ==
    /\ result' = GenerateByCategory(judges_data, competitors_data, templates, contest_context)
    /\ UNCHANGED <<judges_data, competitors_data, rosterVars, widgetVars, templates,
                   editorVars, callVars>>

ClickLabels ==
    /\ result' = GenerateLabels(judges_data, competitors_data, contest_context)
    /\ UNCHANGED <<judges_data, competitors_data, rosterVars, widgetVars, templates,
                   editorVars, callVars>>

ClickFolderLabels ==
    /\ result' = GenerateFolderLabels(judges_data, contest_context)
    /\ UNCHANGED <<judges_data, competitors_data, rosterVars, widgetVars, templates,
                   editorVars, callVars>>

GenNext ==
    \/ ClickByJudge
    \/ ClickByCategory
    \/ ClickLabels
    \/ ClickFolderLabels

SpecGen == GenInit /\ [][GenNext]_vars

(***************************************************************************)
(* Functions studied by themselves: each call draws its arguments in the   *)
(* initial state and the one step of the call stores what it returned.     *)
(***************************************************************************)
MaxCopies == 2

\* the keys of blank_reqs in the order lines 841-850 insert them
FormatNames ==
    << <<"M","U","S","_","L","o","n","g">>, <<"M","U","S","_","S","h","o","r","t">>,
       <<"P","E","R","_","L","o","n","g">>, <<"P","E","R","_","S","h","o","r","t">>,
       <<"S","N","G","_","L","o","n","g">>, <<"S","N","G","_","S","h","o","r","t">> >>

\* a page copied from a template without any overlay
BlankPage(t_name, i_page) == [template |-> t_name, tpage |-> i_page]

\* a loop that adds every requested template once, whatever the count
BlankCopiesOnce(tdir, fmt_name, count) ==
    LET t_name == fmt_name \o <<".","p","d","f">>
    IN  IF count > 0 /\ Exists(tdir, t_name)
        THEN [i_page \in 1..tdir[t_name] |-> BlankPage(t_name, i_page)]
        ELSE <<>>

\* lines 359-367: the pages one entry of requests adds to output_writer
BlankCopies(tdir, fmt_name, count) ==
    LET t_name == fmt_name \o <<".","p","d","f">>
    IN  IF count > 0 /\ Exists(tdir, t_name)
        THEN Flatten([n \in 1..count |->
                [i_page \in 1..tdir[t_name] |-> BlankPage(t_name, i_page)]])
        ELSE <<>>

\* lines 356-374; requests is the sequence of the (fmt_name, count) items,
\* pdf holds the document written, and is empty for None
generate_blank_forms(requests, tdir) ==
    LET pages == Flatten([k \in DOMAIN requests |->
                    BlankCopies(tdir, requests[k][1], requests[k][2])])
        pages_added == Len(pages)
    IN  IF pages_added > 0
        THEN [pdf |-> <<pages>>, pages_added |-> pages_added]
        ELSE [pdf |-> <<>>, pages_added |-> 0]

\* the blank_reqs the number_inputs can hold
BlankRequests ==
    {[k \in DOMAIN FormatNames |-> <<FormatNames[k], counts[k]>>] :
        counts \in [DOMAIN FormatNames -> 0..MaxCopies]}

BlankCalls ==
    [fn : {"generate_blank_forms"}, requests : BlankRequests, tdir : TemplateDirs]

MaxText == 3

\* a missing value (NaN, None) where a text is expected
NaNText == <<"NaN">>

\* an escaping that handles the braces before the backslash
escape_rtf_braces_first(text) ==
    IF text = NaNText THEN <<>>
    ELSE Replace(Replace(Replace(text, <<"{">>, <<"\\", "{">>),
                         <<"}">>, <<"\\", "}">>),
                 <<"\\">>, <<"\\", "\\">>)

\* lines 42-46; '\{' and '\}' are the two characters backslash and brace
escape_rtf(text) ==
    IF text = NaNText THEN <<>>
    ELSE Replace(Replace(Replace(text, <<"\\">>, <<"\\", "\\">>),
                         <<"{">>, <<"\\", "{">>),
                 <<"}">>, <<"\\", "}">>)

RtfTexts == SeqsUpTo({"\\", "{", "}", "a"}, MaxText) \cup {NaNText}

EscapeCalls == [fn : {"escape_rtf"}, text : RtfTexts]

MaxSide == 22

\* Python's float values, kept exact: the fraction n/d as <<n, d>> with d > 0
\* in lowest terms
RECURSIVE GCD(_, _)
GCD(a, b) == IF b = 0 THEN a ELSE GCD(b, a % b)

Abs(n) == IF n < 0 THEN -n ELSE n

Frac(n, d) ==
    LET sn == IF d < 0 THEN -n ELSE n
        sd == Abs(d)
        g  == GCD(Abs(sn), sd)
    IN  <<sn \div g, sd \div g>>

FracAdd(a, b) == Frac(a[1] * b[2] + b[1] * a[2], a[2] * b[2])

FracSub(a, b) == Frac(a[1] * b[2] - b[1] * a[2], a[2] * b[2])

FracMul(a, b) == Frac(a[1] * b[1], a[2] * b[2])

FracDiv(a, b) == Frac(a[1] * b[2], a[2] * b[1])

FracLeq(a, b) == a[1] * b[2] <= b[1] * a[2]

FracMin(a, b) == IF FracLeq(a, b) THEN a ELSE b

FracMax(a, b) == IF FracLeq(a, b) THEN b ELSE a

\* the default margin_inch=0.25 of line 48
DefaultMarginInch == Frac(1, 4)

\* Transformation().scale(scale, scale).translate(tx, ty): the matrix that
\* maps (x, y) to (scale*x + tx, scale*y + ty)
Transformation(scale, tx, ty) == [scale |-> scale, tx |-> tx, ty |-> ty]

\* a scaling by the larger of the two factors
apply_margin_to_page_max(page, margin_inch) ==
    LET margin_pt == FracMul(margin_inch, Frac(72, 1))
        width  == Frac(page.mediabox[1], 1)
        height == Frac(page.mediabox[2], 1)
        safe_width  == FracSub(width, FracMul(Frac(2, 1), margin_pt))
        safe_height == FracSub(height, FracMul(Frac(2, 1), margin_pt))
        scale == FracMax(FracDiv(safe_width, width), FracDiv(safe_height, height))
        tx == FracDiv(FracSub(width, FracMul(width, scale)), Frac(2, 1))
        ty == FracDiv(FracSub(height, FracMul(height, scale)), Frac(2, 1))
    IN  [page EXCEPT !.transformations = Append(@, Transformation(scale, tx, ty))]

\* lines 48-79; add_transformation writes the matrix in front of the page's
\* content and leaves the mediabox as it is
apply_margin_to_page(page, margin_inch) ==
    LET margin_pt == FracMul(margin_inch, Frac(72, 1))
        width  == Frac(page.mediabox[1], 1)
        height == Frac(page.mediabox[2], 1)
        safe_width  == FracSub(width, FracMul(Frac(2, 1), margin_pt))
        safe_height == FracSub(height, FracMul(Frac(2, 1), margin_pt))
        scale_x == FracDiv(safe_width, width)
        scale_y == FracDiv(safe_height, height)
        scale == FracMin(scale_x, scale_y)
        tx == FracDiv(FracSub(width, FracMul(width, scale)), Frac(2, 1))
        ty == FracDiv(FracSub(height, FracMul(height, scale)), Frac(2, 1))
        op == Transformation(scale, tx, ty)
    IN  [page EXCEPT !.transformations = Append(@, op)]

\* pages of whole half inches (36 points) per side; the overlay of
\* create_overlay is the letter page of 612 x 792 points
OverlayPages ==
    [mediabox : {<<36 * w, 36 * h>> : w, h \in 1..MaxSide},
     transformations : {<<>>}]

MarginCalls == [fn : {"apply_margin_to_page"}, page : OverlayPages]

Calls == BlankCalls \cup EscapeCalls \cup MarginCalls

CallsInit ==
    /\ args \in Calls
    /\ ret = NoReturn
    /\ templates = IF args.fn = "generate_blank_forms" THEN args.tdir ELSE NoTemplates
    /\ judges_data = <<>>
    /\ competitors_data = <<>>
    /\ edited_judges = <<>>
    /\ edited_competitors = <<>>
    /\ j_up = NoFile
    /\ clean_df = <<>>
    /\ stage = "idle"
    /\ c_district = <<>>
    /\ c_session = QuartetSemiFinals
    /\ c_date_obj = [year |-> 2024, month |-> 5, day |-> 1]
    /\ result = NoResult

sessionVars == <<judges_data, competitors_data, rosterVars, widgetVars, templates,
                 result, editorVars>>

CallBlankForms ==
    /\ args.fn = "generate_blank_forms"
    /\ ~ret.done
    /\ ret' = Returned(generate_blank_forms(args.requests, templates))
    /\ UNCHANGED <<args, sessionVars>>

CallEscapeRtf ==
    /\ args.fn = "escape_rtf"
    /\ ~ret.done
    /\ ret' = Returned(escape_rtf(args.text))
    /\ UNCHANGED <<args, sessionVars>>

CallApplyMargin ==
    /\ args.fn = "apply_margin_to_page"
    /\ ~ret.done
    /\ ret' = Returned(apply_margin_to_page(args.page, DefaultMarginInch))
    /\ UNCHANGED <<args, sessionVars>>

CallsNext ==
    \/ CallBlankForms
    \/ CallEscapeRtf
    \/ CallApplyMargin

SpecCalls == CallsInit /\ [][CallsNext]_vars

(***************************************************************************)
(* Saving what was typed into the data editors (lines 464-476, 531-541).   *)
(* A row added in an editor has no Number (NaN) until the save fills it.   *)
(***************************************************************************)
MaxEdit == 3

\* edited['Number'].max(), which skips NaN, and 0 when there is no number
MaxNumber(edited) ==
    LET present == {edited[i].Number : i \in DOMAIN edited} \ {NaN}
    IN  IF present = {} THEN 0 ELSE CHOOSE n \in present : \A k \in present : k <= n

\* a fill that gives every row without a Number the same next number
FillMissingNumbersAlike(edited) ==
    LET max_num == MaxNumber(edited)
    IN  [idx \in DOMAIN edited |->
            IF edited[idx].Number = NaN
            THEN [edited[idx] EXCEPT !.Number = max_num + 1]
            ELSE edited[idx]]

\* lines 467-473 and 532-538: the i-th row without a Number (i from 0)
\* gets max_num + 1 + i
FillMissingNumbers(edited) ==
    LET max_num == MaxNumber(edited)
    IN  [idx \in DOMAIN edited |->
            IF edited[idx].Number = NaN
            THEN LET i == Cardinality({k \in 1..(idx - 1) : edited[k].Number = NaN})
                 IN  [edited[idx] EXCEPT !.Number = max_num + 1 + i]
            ELSE edited[idx]]

\* what the judge editor can return: rows with a Number typed in or left out
JudgeEdits ==
    SeqsUpTo([Number : {NaN, 1, 3}, Name : {<<"A"," ","Z">>}, Category : {MUS},
              Type : {Official}, PrintFlag : {TRUE}], MaxEdit)

CompetitorEdits ==
    SeqsUpTo([Number : {NaN, 10}, Name : {TestQuartet}, Director : {<<>>},
              PrintFlag : {TRUE}], MaxEdit)

\* the session tables the edit was made on
EditInit ==
    /\ judges_data \in {<<>>, <<[Number |-> 1, Name |-> <<"A"," ","Z">>, Category |-> MUS,
                                Type |-> Official, PrintFlag |-> TRUE]>>}
    /\ competitors_data \in {<<>>, <<[Number |-> 10, Name |-> TestQuartet,
                                     Director |-> <<>>, PrintFlag |-> TRUE]>>}
    /\ \/ edited_judges \in JudgeEdits /\ edited_competitors = competitors_data
       \/ edited_judges = judges_data /\ edited_competitors \in CompetitorEdits
    /\ args = NoCall
    /\ ret = NoReturn
    /\ templates = NoTemplates
    /\ j_up = NoFile
    /\ clean_df = <<>>
    /\ stage = "idle"
    /\ c_district = <<>>
    /\ c_session = QuartetSemiFinals
    /\ c_date_obj = [year |-> 2024, month |-> 5, day |-> 1]
    /\ result = NoResult

\* lines 464-476; after st.rerun() the editor shows the stored table
SaveJudgeEdits ==
    /\ edited_judges # judges_data
    /\ judges_data' = FillMissingNumbers(edited_judges)
    /\ edited_judges' = judges_data'
    /\ UNCHANGED <<competitors_data, edited_competitors, rosterVars, widgetVars,
                   templates, result, callVars>>

\* lines 531-541
SaveCompetitorEdits ==
    /\ edited_judges = judges_data
    /\ edited_competitors # competitors_data
    /\ competitors_data' = FillMissingNumbers(edited_competitors)
    /\ edited_competitors' = competitors_data'
    /\ UNCHANGED <<judges_data, edited_judges, rosterVars, widgetVars,
                   templates, result, callVars>>

EditNext ==
    \/ SaveJudgeEdits
    \/ SaveCompetitorEdits

SpecEdit == EditInit /\ [][EditNext]_vars

(***************************************************************************)
(* Script runs of a session. Streamlit runs the script from the top on     *)
(* every user event and on every st.rerun(); a run ends at the first       *)
(* st.rerun() it meets. stage tells what the last run ended with: "idle"   *)
(* when it reached the end of the script, otherwise the handler that asked *)
(* for a rerun, which then starts before any further user event.           *)
(***************************************************************************)
\* lines 410-419: the table the import block computes from the uploaded file
ImportPipeline(file) ==
    calculate_numbers(balance_and_sort_judges(ImportClean(file)))

\* the Assignments Reports a user of the session uploads
SessionFiles ==
    { <<[Name |-> <<"A"," ","Z">>, Category |-> MUS, Type |-> Official]>>,
      <<[Name |-> <<"B"," ","a">>, Category |-> PER, Type |-> Official],
        [Name |-> <<"A"," ","Z">>, Category |-> MUS, Type |-> Practice]>> }

\* the tables a user leaves in the judge editor
SessionEdits ==
    SeqsUpTo([Number : {NaN, 1}, Name : {<<"A"," ","Z">>}, Category : {MUS},
              Type : {Official}, PrintFlag : {TRUE}], MaxEdit)

\* One run of the script over the judge column (lines 406-476) with file in
\* the uploader, the buttons j_clear and j_auto clicked or not, and the
\* judge editor returning edited.
ScriptRun(file, j_clear, j_auto, edited) ==
    LET imported == IF file # NoFile THEN ImportPipeline(file) ELSE clean_df
    IN  /\ clean_df' = imported
        /\ IF file # NoFile /\ imported # judges_data
           THEN \* lines 421-423
                /\ judges_data' = imported
                /\ stage' = "imported"
                /\ UNCHANGED edited_judges
           ELSE IF j_clear
           THEN \* lines 433-436
                /\ judges_data' = <<>>
                /\ edited_judges' = <<>>
                /\ stage' = "cleared"
           ELSE IF j_auto /\ judges_data # <<>>
           THEN \* lines 438-445
                /\ judges_data' = calculate_numbers(judges_data)
                /\ edited_judges' = judges_data'
                /\ stage' = "renumbered"
           ELSE IF edited # judges_data
           THEN \* lines 464-476
                /\ judges_data' = FillMissingNumbers(edited)
                /\ edited_judges' = edited
                /\ stage' = "saved"
           ELSE /\ edited_judges' = edited
                /\ stage' = "idle"
                /\ UNCHANGED judges_data

\* lines 447-448: what the judge editor returns in a run the user has not
\* edited in, the table it is given
EditorReturns == judges_data

SessionInit ==
    /\ judges_data = <<>>
    /\ competitors_data = <<>>
    /\ edited_judges = <<>>
    /\ edited_competitors = <<>>
    /\ j_up = NoFile
    /\ clean_df = <<>>
    /\ stage = "idle"
    /\ c_district = <<>>
    /\ c_session = QuartetSemiFinals
    /\ c_date_obj = [year |-> 2024, month |-> 5, day |-> 1]
    /\ templates = NoTemplates
    /\ result = NoResult
    /\ args = NoCall
    /\ ret = NoReturn

sessionRest == <<competitors_data, edited_competitors, c_session, c_date_obj,
                 templates, result, callVars>>

\* the user puts another file into the uploader
UploadFile ==
    /\ stage = "idle"
    /\ \E file \in SessionFiles :
          /\ file # j_up
          /\ j_up' = file
          /\ ScriptRun(file, FALSE, FALSE, EditorReturns)
    /\ UNCHANGED <<c_district, sessionRest>>

\* the user changes a widget outside the judge column
TypeDistrict ==
    /\ stage = "idle"
    /\ c_district' = IF c_district = <<>> THEN Example ELSE <<>>
    /\ ScriptRun(j_up, FALSE, FALSE, EditorReturns)
    /\ UNCHANGED <<j_up, sessionRest>>

ClickClearList ==
    /\ stage = "idle"
    /\ ScriptRun(j_up, TRUE, FALSE, EditorReturns)
    /\ UNCHANGED <<j_up, c_district, sessionRest>>

ClickAutoNumber ==
    /\ stage = "idle"
    /\ ScriptRun(j_up, FALSE, TRUE, EditorReturns)
    /\ UNCHANGED <<j_up, c_district, sessionRest>>

\* the user changes the judge table in the editor
EditJudges ==
    /\ stage = "idle"
    /\ \E edited \in SessionEdits :
          /\ edited # judges_data
          /\ ScriptRun(j_up, FALSE, FALSE, edited)
    /\ UNCHANGED <<j_up, c_district, sessionRest>>

\* the run that st.rerun() starts
Rerun ==
    /\ stage # "idle"
    /\ ScriptRun(j_up, FALSE, FALSE, EditorReturns)
    /\ UNCHANGED <<j_up, c_district, sessionRest>>

SessionNext ==
    \/ UploadFile
    \/ TypeDistrict
    \/ ClickClearList
    \/ ClickAutoNumber
    \/ EditJudges
    \/ Rerun

SpecSession == SessionInit /\ [][SessionNext]_vars

(***************************************************************************)
(* Properties of the roster pipeline (SpecRoster).                         *)
(***************************************************************************)
IsOfficialRow(r) == r.Type = Official /\ r.Category \in {MUS, PER, SNG}

OfficialRows(df) == {i \in DOMAIN df : IsOfficialRow(df[i])}

CatIndex(cat) == CHOOSE k \in DOMAIN categories : categories[k] = cat

\* The Official rows of MUS, PER and SNG carry 1..K in row order, and the
\* rows of an earlier category come before those of a later one.
OfficialRun(df) ==
    /\ \A i \in OfficialRows(df) :
          df[i].Number = Cardinality({j \in OfficialRows(df) : j <= i})
    /\ \A i, j \in OfficialRows(df) :
          i < j => CatIndex(df[i].Category) <= CatIndex(df[j].Category)

\* C1: after calculate_numbers the Official judges of MUS, PER and SNG carry
\* exactly 1..K without gap or repeat, in sorted row order, MUS first, then
\* PER, then SNG, the counter running on across the categories.
C1_OfficialNumbersContiguous ==
    /\ stage = "numbered" => OfficialRun(clean_df)
    /\ stage = "renumbered" => OfficialRun(judges_data)

\* calculate_numbers has numbered Officials of two categories, the second
\* category continuing after a first one of two judges
C1_Witness ==
    /\ stage = "numbered"
    /\ \E i, j, k \in OfficialRows(clean_df) :
          /\ clean_df[i].Category = MUS /\ clean_df[j].Category = MUS /\ i # j
          /\ clean_df[k].Category = PER /\ clean_df[k].Number = 3
          /\ clean_df[k].PrintFlag

\* out is in balanced: every category has as many Official rows as the
\* largest category of in, the rows of in stay in front, the rows added are
\* placeholders, and none is added when in has no Official row.
Balanced(in, out) ==
    /\ \A k \in DOMAIN categories :
          CountRows(out, categories[k], Official) =
             Max(CountRows(in, MUS, Official),
                 Max(CountRows(in, PER, Official), CountRows(in, SNG, Official)))
    /\ Len(out) >= Len(in)
    /\ \A i \in DOMAIN in :
          /\ out[i].Name = in[i].Name /\ out[i].Category = in[i].Category
          /\ out[i].Type = in[i].Type /\ out[i].PrintFlag = in[i].PrintFlag
    /\ \A i \in (Len(in) + 1)..Len(out) :
          /\ out[i].Category \in {MUS, PER, SNG}
          /\ out[i] = [Name |-> AbsentName(out[i].Category),
                       Category |-> out[i].Category, Type |-> Official,
                       PrintFlag |-> FALSE, Number |-> 0]
    /\ (\A i \in DOMAIN in : ~IsOfficialRow(in[i])) => out = in

\* C3: balance_and_sort_judges leaves every category with as many Official
\* judges as the largest category had; the rows added are placeholders only,
\* and none is added when that maximum is 0.
C3_BalanceEqualizes ==
    [][stage = "cleaned" /\ stage' = "balanced" => Balanced(clean_df, clean_df')]_vars

\* balancing has padded two categories by different amounts
C3_Witness ==
    /\ stage = "balanced"
    /\ CountRows(ImportClean(j_up), MUS, Official) = 2
    /\ CountRows(ImportClean(j_up), PER, Official) = 0
    /\ Len(clean_df) = Len(ImportClean(j_up)) + 4

\* C5: calculate_numbers applied to its own result changes neither the row
\* order nor any Number.
C5_NumberingIdempotent ==
    [][stage = "stored" /\ stage' = "renumbered" => judges_data' = judges_data]_vars

\* Auto-number has run on a numbered roster that holds rows equal on all
\* three sort keys, rows of two categories and a Practice judge
C5_Witness ==
    /\ stage = "renumbered"
    /\ \E i, j \in DOMAIN judges_data :
          /\ i < j
          /\ judges_data[i].Name # judges_data[j].Name
          /\ ~KeyLess(judges_data[i], judges_data[j])
          /\ ~KeyLess(judges_data[j], judges_data[i])

\* C2: every placeholder the import added ("Absent <CAT> Judge") has Number 0
\* and Print false in the stored roster, after import and after Auto-number.
\* (The names of the imported files are other names, so a row of that name
\* is a placeholder, and no manual edit is part of SpecRoster.)
C2_PlaceholdersZero ==
    stage \in {"stored", "renumbered"} =>
        \A i \in DOMAIN judges_data :
            judges_data[i].Name = AbsentName(judges_data[i].Category) =>
                judges_data[i].Number = 0 /\ judges_data[i].PrintFlag = FALSE

(***************************************************************************)
(* Properties of the generation buttons (SpecGen).                         *)
(***************************************************************************)
\* the button's run got past the District and Missing Data checks
Reached(mode) ==
    /\ result.mode = mode
    /\ c_district # <<>>
    /\ judges_data # <<>>
    /\ competitors_data # <<>>

Files_(r) == {r.files[k] : k \in DOMAIN r.files}

PagesOf(f) == {f.pages[k] : k \in DOMAIN f.pages}

BlocksOf(f) == {f.blocks[k] : k \in DOMAIN f.blocks}

Scenario ==
    /\ c_district = Example
    /\ c_session = QuartetSemiFinals
    /\ c_date_obj = [year |-> 2024, month |-> 5, day |-> 1]
    /\ Len(judges_data) = 1
    /\ judges_data[1].Category = MUS
    /\ judges_data[1].Number = 1
    /\ judges_data[1].PrintFlag = TRUE
    /\ Len(competitors_data) = 1
    /\ competitors_data[1].Number = 10
    /\ competitors_data[1].Name = TestQuartet
    /\ competitors_data[1].PrintFlag = TRUE
    /\ templates = OnlyMusLong
    /\ result.mode = "by_judge"

OnePdfOfOnePage(name) ==
    /\ result.level = "success"
    /\ result.kind = "pdf"
    /\ result.name = name
    /\ Len(result.files) = 1
    /\ Len(result.files[1].pages) = 1

\* C6 as stated: in the end-to-end scenario Per-Judge offers one PDF of one
\* page named Quartet_Semi-Finals_<judgeName>_05-01-2024.pdf.
C6_UnderscoreName ==
    Scenario =>
        OnePdfOfOnePage(<<"Q","u","a","r","t","e","t","_","S","e","m","i","-","F","i","n","a","l","s","_">> \o clean_filename(judges_data[1].Name)
                            \o <<"_","0","5","-","0","1","-","2","0","2","4",".","p","d","f">>)

\* C6 amended: in the end-to-end scenario Per-Judge offers one PDF of one
\* page, a direct file named "Quartet Semi-Finals_<judgeName>_05-01-2024.pdf":
\* clean_filename keeps the space of the session name.
C6_ScenarioOnePdf ==
    Scenario =>
        OnePdfOfOnePage(<<"Q","u","a","r","t","e","t"," ","S","e","m","i","-","F","i","n","a","l","s","_">> \o clean_filename(judges_data[1].Name)
                            \o <<"_","0","5","-","0","1","-","2","0","2","4",".","p","d","f">>)

C6_Witness == Scenario /\ result.kind = "pdf"

\* C7: in Per-Judge, Per-Category and Labels-Only, an empty set of active
\* judges or of active competitors after the Print filter ends the mode with a
\* warning and no download.
C7_EmptyActiveWarns ==
    \A mode \in {"by_judge", "by_category", "labels"} :
        /\ Reached(mode)
        /\ ActiveRows(judges_data) = <<>> \/ ActiveRows(competitors_data) = <<>>
        => result.level = "warning" /\ result.kind = "none"

\* The pages one judge got from Short templates, in output order.
ShortPages(j) ==
    Flatten([k \in DOMAIN result.files |->
        SelectSeq(result.files[k].pages,
                  LAMBDA pg : pg.judge = j /\ Contains(pg.template, <<"S","h","o","r","t">>))])

\* C8: a Short template composed for one judge and N active competitors
\* gives ceil(N/2) pages, page k holding competitor 2k-1 in slot 1 and
\* competitor 2k in slot 2, slot 2 empty exactly on the last page of an odd N.
C8_ShortPacking ==
    Reached("by_category") =>
        \A j \in DOMAIN judges_data :
            /\ judges_data[j].PrintFlag = TRUE
            /\ judges_data[j].Number # 0
            /\ Exists(templates, FORMAT_MAPPING(judges_data[j].Category)[2])
            => LET list == ActiveRows(competitors_data)
                   N    == Len(list)
                   ps   == ShortPages(j)
               IN  /\ Len(ps) = (N + 1) \div 2
                   /\ \A k \in DOMAIN ps :
                         /\ ps[k].comp1 = list[2 * k - 1]
                         /\ ps[k].comp2 = IF 2 * k <= N THEN list[2 * k] ELSE NoComp
                         /\ ps[k].comp2 = NoComp <=> (k = Len(ps) /\ N % 2 = 1)

\* Per-Category has packed three active competitors of one judge on two
\* Short pages, the second with an empty slot 2
C8_Witness ==
    /\ result.mode = "by_category"
    /\ Len(ActiveRows(competitors_data)) = 3
    /\ \E j \in DOMAIN judges_data :
          /\ Len(ShortPages(j)) = 2
          /\ ShortPages(j)[1].comp2 # NoComp
          /\ ShortPages(j)[2].comp2 = NoComp

\* The judges Per-Judge composes a document with pages for: Print true,
\* Number not 0, the Long template of the category present.
PacketJudges ==
    {j \in DOMAIN judges_data :
        /\ judges_data[j].PrintFlag = TRUE
        /\ judges_data[j].Number # 0
        /\ Exists(templates, FORMAT_MAPPING(judges_data[j].Category)[1])}

\* C9: Per-Judge drops the documents without pages; one document is offered
\* as a PDF, several as one ZIP with an entry per document, none gives a
\* warning and no download.
C9_ByJudgeShape ==
    /\ Reached("by_judge")
    /\ ActiveRows(judges_data) # <<>>
    /\ ActiveRows(competitors_data) # <<>>
    => /\ \A k \in DOMAIN result.files :
             /\ result.files[k].pages # <<>>
             /\ \E j \in PacketJudges :
                   \A pg \in PagesOf(result.files[k]) : pg.judge = j
       /\ \A j \in PacketJudges :
             Cardinality({k \in DOMAIN result.files :
                \E pg \in PagesOf(result.files[k]) : pg.judge = j}) = 1
       /\ Len(result.files) = Cardinality(PacketJudges)
       /\ Cardinality(PacketJudges) = 1 => result.kind = "pdf"
       /\ Cardinality(PacketJudges) > 1 => result.kind = "zip"
       /\ Cardinality(PacketJudges) = 0 =>
             result.kind = "none" /\ result.level = "warning"

\* Per-Judge has archived the packets of two judges
C9_Witness ==
    /\ result.mode = "by_judge"
    /\ result.kind = "zip"
    /\ Len(result.files) = 2

\* The category has a judge with Print true and Number not 0.
HasActiveJudge(cat) ==
    \E j \in DOMAIN judges_data :
        /\ judges_data[j].Category = cat
        /\ judges_data[j].PrintFlag = TRUE
        /\ judges_data[j].Number # 0

\* The archive entries written for a template.
FilesFor(t_name) ==
    {f \in Files_(result) :
        \/ Contains(f.name, <<"_">> \o Replace(t_name, <<".","p","d","f">>, <<>>) \o <<"_">>)
        \/ \E pg \in PagesOf(f) : pg.template = t_name}

\* C10: Per-Category writes no file for a category without an active judge,
\* for either template, raises no error, and still writes the files of the
\* other categories.
C10_EmptyCategorySkipped ==
    Reached("by_category") =>
        /\ result.level # "error"
        /\ \A k \in DOMAIN categories :
              LET cat == categories[k]
              IN  \A n \in DOMAIN FORMAT_MAPPING(cat) :
                     LET t_name == FORMAT_MAPPING(cat)[n]
                     IN  IF /\ HasActiveJudge(cat)
                            /\ Exists(templates, t_name)
                            /\ ActiveRows(competitors_data) # <<>>
                         THEN Cardinality(FilesFor(t_name)) = 1
                         ELSE FilesFor(t_name) = {}

\* Per-Category has written the files of one category while another
\* category, whose only judge with Print true has Number 0, got none
C10_Witness ==
    /\ result.mode = "by_category"
    /\ result.kind = "zip"
    /\ templates = AllTemplates
    /\ \E cat \in {MUS, PER, SNG} :
          /\ ~HasActiveJudge(cat)
          /\ \E j \in DOMAIN judges_data :
                judges_data[j].Category = cat /\ judges_data[j].PrintFlag = TRUE

\* The Practice rows of each of MUS, PER and SNG carry 50, 51, ... in row
\* order, every category starting again at 50.
PracticeRun(df) ==
    \A i \in DOMAIN df :
        (df[i].Type = Practice /\ df[i].Category \in {MUS, PER, SNG}) =>
            df[i].Number = 50 + Cardinality({j \in 1..(i-1) :
                                /\ df[j].Type = Practice
                                /\ df[j].Category = df[i].Category})

\* C12: after calculate_numbers the Practice judges of each category carry
\* exactly 50, 51, ..., 50+p-1 in sorted row order, the numbering starting
\* again at 50 in every category.
C12_PracticeNumbersFrom50 ==
    /\ stage = "numbered" => PracticeRun(clean_df)
    /\ stage = "renumbered" => PracticeRun(judges_data)

\* calculate_numbers has numbered Practice judges of two categories, both
\* of which start at 50
C12_Witness ==
    /\ stage = "numbered"
    /\ \E i, j \in DOMAIN clean_df :
          /\ clean_df[i].Type = Practice /\ clean_df[i].Category = MUS
          /\ clean_df[j].Type = Practice /\ clean_df[j].Category = PER
          /\ clean_df[i].Number = 50 /\ clean_df[j].Number = 50

\* the sort key of a row as the specification gives it
RankKey(r) ==
    << CASE r.Category = MUS -> 0 [] r.Category = PER -> 1
         [] r.Category = SNG -> 2 [] OTHER -> 99,
       CASE r.Type = Official -> 0 [] r.Type = Practice -> 1 [] OTHER -> 99,
       LastToken(Strip(r.Name)) >>

RankKeyLess(a, b) ==
    LET ka == RankKey(a)
        kb == RankKey(b)
    IN  \/ ka[1] < kb[1]
        \/ ka[1] = kb[1] /\ ka[2] < kb[2]
        \/ ka[1] = kb[1] /\ ka[2] = kb[2] /\ StrLess(ka[3], kb[3])

\* a row without its Number
Unnumbered(r) ==
    [Name |-> r.Name, Category |-> r.Category, Type |-> r.Type,
     PrintFlag |-> r.PrintFlag]

\* out holds the rows of in, cleaned, in nondecreasing key order, the rows of
\* every key in the order they have in in
StablySorted(in, out) ==
    LET cleaned == [i \in DOMAIN in |-> Unnumbered(CleanRow(in[i]))]
        sorted  == [i \in DOMAIN out |-> Unnumbered(out[i])]
    IN  /\ Len(out) = Len(in)
        /\ \A i, j \in DOMAIN out : i < j => ~RankKeyLess(out[j], out[i])
        /\ \A k \in {RankKey(cleaned[i]) : i \in DOMAIN cleaned} :
              SelectSeq(sorted, LAMBDA r : RankKey(r) = k) =
              SelectSeq(cleaned, LAMBDA r : RankKey(r) = k)

\* C13: calculate_numbers orders the rows by category rank (MUS, PER, SNG,
\* others 99), then type rank (Official, Practice, others 99), then the last
\* whitespace-separated token of Name compared case-sensitively; rows equal
\* on all three keys keep their prior relative order.
C13_SortOrderStable ==
    [][/\ (stage = "balanced" /\ stage' = "numbered"
              => StablySorted(clean_df, clean_df'))
       /\ (stage = "stored" /\ stage' = "renumbered"
              => StablySorted(judges_data, judges_data'))]_vars

\* calculate_numbers has sorted a file in which 'C Z' stood in front of
\* 'A Z', both of one category and type: they keep that order
C13_Witness ==
    /\ stage = "numbered"
    /\ Len(j_up) = 2
    /\ j_up[1].Name = <<"C"," ","Z">> /\ j_up[2].Name = <<"A"," ","Z">>
    /\ \E i, j \in DOMAIN clean_df :
          /\ i < j
          /\ clean_df[i].Name = <<"C"," ","Z">> /\ clean_df[j].Name = <<"A"," ","Z">>
          /\ clean_df[i].Category = clean_df[j].Category
          /\ clean_df[i].Type = clean_df[j].Type

\* C19: after the import pipeline (clean, balance, number, store) the stored
\* roster has the same number of judges with Type 'Official' in MUS, PER and
\* SNG, for every imported file, also one whose Type values differ from
\* 'Official' only by letter case or surrounding whitespace.
C19_StoredRosterBalanced ==
    stage = "stored" =>
        /\ CountRows(judges_data, MUS, Official) = CountRows(judges_data, PER, Official)
        /\ CountRows(judges_data, PER, Official) = CountRows(judges_data, SNG, Official)

\* the Long pages composed for judge j, in the order they were written
LongPages(j) ==
    Flatten([k \in DOMAIN result.files |->
        SelectSeq(result.files[k].pages,
                  LAMBDA pg : pg.judge = j /\ Contains(pg.template, <<"L","o","n","g">>))])

\* C15: a Long template of P pages gives, for every (judge, competitor)
\* pair, exactly P pages in template order, only the first of them merged
\* with the overlay; over C active competitors one judge's Long output has
\* C * P pages.
C15_LongPacking ==
    Reached("by_judge") \/ Reached("by_category") =>
        \A j \in DOMAIN judges_data :
            /\ judges_data[j].PrintFlag = TRUE
            /\ judges_data[j].Number # 0
            /\ Exists(templates, FORMAT_MAPPING(judges_data[j].Category)[1])
            => LET list == ActiveRows(competitors_data)
                   C    == Len(list)
                   P    == templates[FORMAT_MAPPING(judges_data[j].Category)[1]]
                   ps   == LongPages(j)
               IN  /\ Len(ps) = C * P
                   /\ \A c \in 1..C : \A p \in 1..P :
                         LET pg == ps[(c - 1) * P + p]
                         IN  /\ pg.comp1 = list[c]
                             /\ pg.tpage = p
                             /\ pg.merged = (p = 1)

\* a judge's packet over two competitors and a Long template of two pages:
\* four pages, the first and the third merged
C15_Witness ==
    /\ result.mode = "by_judge"
    /\ Len(ActiveRows(competitors_data)) = 2
    /\ \E j \in DOMAIN judges_data :
          /\ Len(LongPages(j)) = 4
          /\ LongPages(j)[1].merged /\ ~LongPages(j)[2].merged
          /\ LongPages(j)[3].merged /\ ~LongPages(j)[4].merged
          /\ LongPages(j)[3].comp1 # LongPages(j)[1].comp1

\* C17: Per-Judge never composes a Short template: a judge's document holds
\* only pages of <CAT>_Long.pdf, C times its page count, also when
\* <CAT>_Short.pdf exists; Per-Category composes both templates.
C17_ByJudgeLongOnly ==
    /\ Reached("by_judge") =>
          \A k \in DOMAIN result.files :
             LET pages == result.files[k].pages
                 long  == FORMAT_MAPPING(judges_data[pages[1].judge].Category)[1]
             IN  /\ \A n \in DOMAIN pages :
                       /\ pages[n].template = long
                       /\ pages[n].judge = pages[1].judge
                 /\ Len(pages) = Len(ActiveRows(competitors_data)) * templates[long]
    /\ Reached("by_category") /\ ActiveRows(competitors_data) # <<>> =>
          \A j \in DOMAIN judges_data :
             judges_data[j].PrintFlag = TRUE /\ judges_data[j].Number # 0 =>
                \A n \in 1..2 :
                   LET t_name == FORMAT_MAPPING(judges_data[j].Category)[n]
                   IN  Exists(templates, t_name) =>
                          \E f \in Files_(result) : \E pg \in PagesOf(f) :
                             pg.judge = j /\ pg.template = t_name

\* Per-Judge has composed a packet for a judge whose category has a Short
\* template next to the Long one
C17_Witness ==
    /\ result.mode = "by_judge"
    /\ \E k \in DOMAIN result.files :
          LET j == result.files[k].pages[1].judge
          IN  /\ Exists(templates, FORMAT_MAPPING(judges_data[j].Category)[2])
              /\ Len(result.files[k].pages) = 4

\* C20: when Per-Judge produces more than one document, the entry names of
\* the archive are pairwise distinct, so that it holds one retrievable entry
\* for every active judge with a non-empty document, whatever the roster.
C20_ArchiveNamesDistinct ==
    result.mode = "by_judge" /\ result.kind = "zip" =>
        \A k, n \in DOMAIN result.files :
            k # n => result.files[k].name # result.files[n].name

(***************************************************************************)
(* Properties of the functions studied by themselves (SpecCalls).          *)
(***************************************************************************)
\* the sum over the entries with a count above 0 and an existing template of
\* count times the page count of the template
RECURSIVE ExpectedBlankPages(_, _)
ExpectedBlankPages(requests, tdir) ==
    IF requests = <<>> THEN 0
    ELSE LET t_name == Head(requests)[1] \o <<".","p","d","f">>
             count  == Head(requests)[2]
         IN  (IF count > 0 /\ tdir[t_name] > 0 THEN count * tdir[t_name] ELSE 0)
                + ExpectedBlankPages(Tail(requests), tdir)

\* C11: generate_blank_forms returns as page count the sum, over the entries
\* with count > 0 whose template exists, of count times the template's page
\* count; a sum of 0 gives no document and the count 0, any other sum one
\* document of exactly that many pages.
C11_BlankPageCount ==
    args.fn = "generate_blank_forms" /\ ret.done =>
        LET sum == ExpectedBlankPages(args.requests, args.tdir)
        IN  /\ ret.value.pages_added = sum
            /\ sum = 0 => ret.value.pdf = <<>>
            /\ sum > 0 => /\ Len(ret.value.pdf) = 1
                          /\ Len(ret.value.pdf[1]) = sum

\* two copies of a one-page template, one copy of another one and two
\* copies requested of a template that is missing: three pages
C11_Witness ==
    /\ args.fn = "generate_blank_forms" /\ ret.done
    /\ args.tdir = SomeTemplates
    /\ args.requests[1][2] = 2 /\ args.requests[2][2] = 1 /\ args.requests[3][2] = 2
    /\ ret.value.pages_added = 3
    /\ Len(ret.value.pdf[1]) = 3

\* every backslash, '{' and '}' of text preceded by one backslash
Escaped(text) ==
    Flatten([i \in DOMAIN text |->
        IF text[i] \in {"\\", "{", "}"} THEN <<"\\", text[i]>> ELSE <<text[i]>>])

\* the reading of an escaped text: a backslash stands for the character
\* that follows it
RECURSIVE Unescape(_)
Unescape(s) ==
    IF s = <<>> THEN <<>>
    ELSE IF Head(s) = "\\" /\ Len(s) >= 2
         THEN <<s[2]>> \o Unescape(SubSeq(s, 3, Len(s)))
         ELSE <<Head(s)>> \o Unescape(Tail(s))

\* C14: escape_rtf replaces each backslash, '{' and '}' by that character
\* preceded by a single backslash and leaves every other character as it
\* is, so that unescaping the result gives the original string back.
C14_EscapeRoundTrip ==
    args.fn = "escape_rtf" /\ args.text # NaNText /\ ret.done =>
        /\ ret.value = Escaped(args.text)
        /\ Unescape(ret.value) = args.text

\* a text that holds a brace behind a backslash has been escaped
C14_Witness ==
    /\ args.fn = "escape_rtf" /\ ret.done
    /\ args.text = <<"\\", "{", "a">>
    /\ ret.value = <<"\\", "\\", "\\", "{", "a">>

\* where the matrix op puts the coordinate x, tx being its translation
Moved(op, x, t) == FracAdd(FracMul(op.scale, Frac(x, 1)), t)

\* the coordinate v lies at least m away from both ends of [0, side]
Inside(v, side, m) ==
    /\ FracLeq(m, v)
    /\ FracLeq(v, FracSub(Frac(side, 1), m))

\* C16: apply_margin_to_page leaves the mediabox (W, H) unchanged and maps
\* every point of [0,W] x [0,H] to a point at least margin_inch*72 points
\* from each edge, by the uniform scale min((W-2m)/W, (H-2m)/H) and a
\* centering translation.
C16_MarginScaling ==
    args.fn = "apply_margin_to_page" /\ ret.done =>
        LET W  == args.page.mediabox[1]
            H  == args.page.mediabox[2]
            m  == Frac(18, 1)
            op == ret.value.transformations[1]
        IN  /\ ret.value.mediabox = args.page.mediabox
            /\ Len(ret.value.transformations) = 1
            /\ op.scale = FracMin(Frac(W - 36, W), Frac(H - 36, H))
            /\ \A x \in {18 * k : k \in 0..(W \div 18)} : Inside(Moved(op, x, op.tx), W, m)
            /\ \A y \in {18 * k : k \in 0..(H \div 18)} : Inside(Moved(op, y, op.ty), H, m)
            /\ FracAdd(Moved(op, 0, op.tx), Moved(op, W, op.tx)) = Frac(W, 1)
            /\ FracAdd(Moved(op, 0, op.ty), Moved(op, H, op.ty)) = Frac(H, 1)

\* the letter page of the overlay has been scaled by 16/17, the factor of
\* its width, its corner moved to (18, 396/17)
C16_Witness ==
    /\ args.fn = "apply_margin_to_page" /\ ret.done
    /\ args.page.mediabox = <<612, 792>>
    /\ ret.value.transformations[1] =
          Transformation(Frac(16, 17), Frac(18, 1), Frac(396, 17))

(***************************************************************************)
(* Properties of the editor save (SpecEdit).                               *)
(***************************************************************************)
\* the rows of edited that have no Number, in row order
MissingRows(edited) ==
    SelectSeq([i \in DOMAIN edited |-> i], LAMBDA i : edited[i].Number = NaN)

\* saved is edited with the i-th missing Number (i from 0) set to
\* max(existing, or 0) + 1 + i and nothing else changed; the new numbers
\* differ from one another and from every Number that was there
FilledFrom(edited, saved) ==
    LET missing  == MissingRows(edited)
        existing == {edited[i].Number : i \in DOMAIN edited} \ {NaN}
        base     == IF existing = {} THEN 0
                    ELSE CHOOSE n \in existing : \A k \in existing : k <= n
    IN  /\ Len(saved) = Len(edited)
        /\ \A i \in DOMAIN edited : edited[i].Number # NaN => saved[i] = edited[i]
        /\ \A n \in DOMAIN missing :
              saved[missing[n]] = [edited[missing[n]] EXCEPT !.Number = base + 1 + (n - 1)]
        /\ \A n, k \in DOMAIN missing :
              n # k => saved[missing[n]].Number # saved[missing[k]].Number
        /\ \A n \in DOMAIN missing : saved[missing[n]].Number \notin existing

\* C18: when a manual edit is saved, the i-th row without a Number (i from
\* 0, in row order) gets max(existing Numbers, or 0 if none) + 1 + i, rows
\* with a Number keep it, and the new Numbers are pairwise distinct and
\* distinct from every Number present before.
C18_SaveFillsNumbers ==
    [][/\ (edited_judges # judges_data /\ edited_judges' = judges_data'
              => FilledFrom(edited_judges, judges_data'))
       /\ (edited_competitors # competitors_data
              /\ edited_competitors' = competitors_data'
              => FilledFrom(edited_competitors, competitors_data'))]_vars

\* a judge table with the Numbers 3, none, none has been saved as 3, 4, 5
C18_Witness ==
    /\ Len(judges_data) = 3
    /\ judges_data[1].Number = 3
    /\ judges_data[2].Number = 4
    /\ judges_data[3].Number = 5
    /\ edited_judges = judges_data

(***************************************************************************)
(* Properties of the script runs (SpecSession).                            *)
(***************************************************************************)
\* C21: once a manual edit of the judge table has been saved, the script
\* run that follows (the rerun the save asks for, no upload, click or edit
\* in between) leaves the stored judge table equal to the edited one, also
\* when the imported file is still in the uploader.
C21_SavedEditPersists ==
    [][stage = "saved" => judges_data' = judges_data]_vars

====
